---------------------------- MODULE Spec2Model ----------------------------
(***************************************************************************)
(* cargo-scorecard (src/src/main.rs): the dependency lister, the two       *)
(* chained network lookups of one crate (fetch_crate_repo_url, then        *)
(* fetch_security_score), the concurrent fan-out of main (join_all) and    *)
(* the loop that prints one table row per result.                          *)
(*                                                                         *)
(* Strings the code inspects are sequences: a URL is a sequence of         *)
(* one-character strings, a line of the lister's output is a sequence of   *)
(* tokens in which " " is a run of whitespace.  A score (f64) is counted   *)
(* in tenths.                                                              *)
(***************************************************************************)
EXTENDS Integers, Sequences, FiniteSets, TLC

VARIABLES
    lister,         \* what `sh -c "cargo tree --prefix none | sort -u"` gave
    registry,       \* crates.io: crate name -> the responses it may give
    scorecard,      \* securityscorecards.dev: path -> the responses it may give
    mainPc,         \* position of main
    crates,         \* main's `crates`: Vec<CrateInfo>
    pc,             \* per item: position of its fetch_crate_score future
    resolved,       \* per item: what fetch_crate_repo_url(..).await returned
    scored,         \* per item: what fetch_security_score(..).await returned
    ret,            \* per item: what fetch_crate_score returned
    resolverCalls,  \* per item: GET requests sent to the registry
    scorerCalls,    \* per item: GET requests sent to the scorecard service
    scorerUrl,      \* per item: the repo_url fetch_security_score was called with
    scorerPath,     \* per item: the project path of its scorecard request
    completed,      \* the items in the order their futures completed
    results,        \* main's `results`: what join_all returned
    printIdx,       \* how far the printing loop's iterator has advanced
    output,         \* the CrateScore values printed as table rows, in order
    run,            \* 1 for the first run of the program, 2 for a second one
    firstOutput,    \* the rows of the first run, once a second one started
    firstCompleted, \* the completion order of the first run, likewise
    call            \* a single call of one of the two fetch functions, on its own

vars == <<lister, registry, scorecard, mainPc, crates, pc, resolved, scored,
          ret, resolverCalls, scorerCalls, scorerUrl, scorerPath, completed,
          results, printIdx, output, run, firstOutput, firstCompleted, call>>

itemVars == <<pc, resolved, scored, ret, resolverCalls, scorerCalls,
              scorerUrl, scorerPath, completed>>

-----------------------------------------------------------------------------
(* Bounds *)

\* lines the lister prints at most
MaxLines == 3

\* chunks a repository URL given to a lone fetch_security_score is made of
MaxUrlParts == 3

-----------------------------------------------------------------------------
(* Strings *)

HTTP == <<"h","t","t","p",":","/","/">>

HTTPS == <<"h","t","t","p","s",":","/","/">>

Widget == <<"g","i","t","h","u","b",".","c","o","m","/",
            "a","c","m","e","/","w","i","d","g","e","t">>

HostX == <<"x">>

StartsWith(s, p) == Len(p) <= Len(s) /\ SubSeq(s, 1, Len(p)) = p

Drop(s, n) == SubSeq(s, n + 1, Len(s))


\* str::strip_prefix, falling back to the string itself: one occurrence at most
StripPrefixOnce(s, p) == IF StartsWith(s, p) THEN Drop(s, Len(p)) ELSE s

\* str::trim_start_matches(p): every leading repetition of p is removed
RECURSIVE TrimStartMatches(_, _)
TrimStartMatches(s, p) ==
    IF Len(p) > 0 /\ StartsWith(s, p)
    THEN TrimStartMatches(Drop(s, Len(p)), p)
    ELSE s

\* the {} of "https://api.securityscorecards.dev/projects/{}"
ScorecardPath(repo_url) ==
    TrimStartMatches(TrimStartMatches(repo_url, HTTP), HTTPS)

-----------------------------------------------------------------------------
(* Option, Result and the two structs *)

NoneStr == [some |-> FALSE, v |-> <<>>]

SomeStr(s) == [some |-> TRUE, v |-> s]

NoneNum == [some |-> FALSE, v |-> 0]

SomeNum(n) == [some |-> TRUE, v |-> n]

\* Result<Option<_>>: "pending" while the call has not returned
Pending(none) == [tag |-> "pending", val |-> none]

Err(none) == [tag |-> "err", val |-> none]

Ok(opt) == [tag |-> "ok", val |-> opt]

CrateInfo(name, version) == [name |-> name, version |-> version]

CrateScore(name, version, repository, security_score) ==
    [name |-> name, version |-> version,
     repository |-> repository, security_score |-> security_score]

NoCrateScore == CrateScore("", "", NoneStr, NoneNum)

-----------------------------------------------------------------------------
(* HTTP responses.  A response is: did send() succeed, the status, is the  *)
(* body JSON, and the value the body has at the path the caller reads      *)
(* (has = FALSE: the path is absent from the body).                        *)

JNull == [t |-> "null", s |-> <<>>, n |-> 0]

JNumber(n) == [t |-> "number", s |-> <<>>, n |-> n]

JString(s) == [t |-> "string", s |-> s, n |-> 0]

TransportError ==
    [sent |-> FALSE, status |-> 0, json |-> FALSE, has |-> FALSE, val |-> JNull]

HttpResponse(status, json, has, val) ==
    [sent |-> TRUE, status |-> status, json |-> json, has |-> has, val |-> val]

\* repository URLs crates.io answers with
RepoUrls == {HTTPS \o Widget, HTTP \o HostX}

\* scores (in tenths) the scorecard service answers with
Scores == {35, 92}

Paths == {ScorecardPath(u) : u \in RepoUrls}

RegistryResponses ==
    {TransportError,
     HttpResponse(404, TRUE, FALSE, JNull),
     HttpResponse(200, FALSE, FALSE, JNull),
     HttpResponse(200, TRUE, FALSE, JNull),
     HttpResponse(200, TRUE, TRUE, JNull),
     HttpResponse(200, TRUE, TRUE, JNumber(92))}
    \cup {HttpResponse(200, TRUE, TRUE, JString(u)) : u \in RepoUrls}

ScorecardResponses ==
    {TransportError,
     HttpResponse(404, TRUE, FALSE, JNull),
     HttpResponse(200, FALSE, FALSE, JNull),
     HttpResponse(200, TRUE, FALSE, JNull),
     HttpResponse(200, TRUE, TRUE, JNull),
     HttpResponse(200, TRUE, TRUE, JString(HostX))}
    \cup {HttpResponse(200, TRUE, TRUE, JNumber(n)) : n \in Scores}

\* reqwest::StatusCode::is_success
IsSuccess(status) == 200 <= status /\ status <= 299

\* serde_json: value[key] of an absent key is Value::Null
Index(resp) == IF resp.has THEN resp.val ELSE JNull

\* serde_json::Value::as_str
AsStr(v) == IF v.t = "string" THEN SomeStr(v.s) ELSE NoneStr

\* serde_json::Value::as_f64
AsF64(v) == IF v.t = "number" THEN SomeNum(v.n) ELSE NoneNum

\* fetch_crate_repo_url, given the response to its GET
FetchCrateRepoUrl(resp) ==
    IF ~resp.sent THEN Err(NoneStr)
    ELSE IF ~IsSuccess(resp.status) THEN Err(NoneStr)
    ELSE IF ~resp.json THEN Err(NoneStr)
    ELSE Ok(AsStr(Index(resp)))

\* fetch_security_score, given the response to its GET
FetchSecurityScore(resp) ==
    IF ~resp.sent THEN Err(NoneNum)
    ELSE IF ~IsSuccess(resp.status) THEN Err(NoneNum)
    ELSE IF ~resp.json THEN Err(NoneNum)
    ELSE Ok(AsF64(Index(resp)))

-----------------------------------------------------------------------------
(* get_dependencies *)

\* every line `cargo tree --prefix none | sort -u` may print, in sort's order
LineUniverse ==
    << <<" ">>,
       <<"[build-dependencies]">>,
       <<"left-pad-clone", " ", "v0.1.0">>,
       <<"serde", " ", "v1.0.0">>,
       <<"serde", " ", "v1.0.0", " ", "(*)">>,
       <<"serde", " ", "v2.0.0">> >>

Names == {"left-pad-clone", "serde"}

\* the lines of LineUniverse at the positions S, in order
RECURSIVE LinesAt(_, _)
LinesAt(S, k) ==
    IF k > Len(LineUniverse) THEN <<>>
    ELSE (IF k \in S THEN <<LineUniverse[k]>> ELSE <<>>) \o LinesAt(S, k + 1)

\* the outputs of the command: it does not start, it exits non-zero, or it
\* prints sorted lines without duplicates
ListerOutputs ==
    {[spawned |-> FALSE, success |-> FALSE, stdout |-> <<>>],
     [spawned |-> TRUE, success |-> FALSE, stdout |-> <<>>]}
    \cup {[spawned |-> TRUE, success |-> TRUE, stdout |-> LinesAt(S, 1)] :
            S \in {T \in SUBSET (1..Len(LineUniverse)) : Cardinality(T) <= MaxLines}}

\* str::trim
RECURSIVE Trim(_)
Trim(line) ==
    IF line = <<>> THEN line
    ELSE IF Head(line) = " " THEN Trim(Tail(line))
    ELSE IF line[Len(line)] = " " THEN Trim(SubSeq(line, 1, Len(line) - 1))
    ELSE line

\* str::split_whitespace, collected
RECURSIVE SplitWhitespace(_)
SplitWhitespace(line) ==
    IF line = <<>> THEN <<>>
    ELSE (IF Head(line) = " " THEN <<>> ELSE <<Head(line)>>)
         \o SplitWhitespace(Tail(line))

\* the iterator chain of get_dependencies over the lines of stdout
RECURSIVE ParseDependencies(_)
ParseDependencies(lines) ==
    IF lines = <<>> THEN <<>>
    ELSE LET line == Trim(Head(lines))
             parts == SplitWhitespace(line)
         IN  (IF line # <<>> /\ Len(parts) = 2
              THEN <<CrateInfo(parts[1], parts[2])>>
              ELSE <<>>)
             \o ParseDependencies(Tail(lines))

\* get_dependencies: Err when the command did not run or did not succeed
GetDependenciesFails(out) == ~out.spawned \/ ~out.success

-----------------------------------------------------------------------------
(* fetch_crate_score *)

\* `if let Some(ref repo_url) = repository`, reached when `?` did not return
CallsScorerAlways(rep) == rep.tag = "ok"

CallsScorer(rep) == rep.tag = "ok" /\ rep.val.some

\* a failed resolution is tried again
AfterResolveRetry(rep) ==
    IF rep.tag = "err" THEN "Start"
    ELSE IF CallsScorer(rep) THEN "ScoringRepo" ELSE "Done"

\* where the future goes once fetch_crate_repo_url has returned rep: `?`
\* returns the Err, a repository is scored, no repository is not
AfterResolve(rep) == IF CallsScorer(rep) THEN "ScoringRepo" ELSE "Done"

\* a scorer error returned with `?` instead of unwrap_or(None)
FetchCrateScoreStrict(crate_info, rep, sc) ==
    IF rep.tag = "err" \/ sc.tag = "err" THEN [tag |-> "err", val |-> NoCrateScore]
    ELSE [tag |-> "ok",
          val |-> CrateScore(crate_info.name, crate_info.version, rep.val,
                             IF rep.val.some THEN sc.val ELSE NoneNum)]

\* a score that is missing is printed as 0.0: unwrap_or(Some(0.0))
FetchCrateScoreDefault(crate_info, rep, sc) ==
    IF rep.tag = "err" THEN [tag |-> "err", val |-> NoCrateScore]
    ELSE [tag |-> "ok",
          val |-> CrateScore(crate_info.name, crate_info.version, rep.val,
                             IF rep.val.some /\ sc.tag = "ok" /\ sc.val.some
                             THEN sc.val ELSE SomeNum(0))]

\* the value fetch_crate_score returns, from what its two calls returned
\* (sc is still pending when the scorer was not called)
FetchCrateScore(crate_info, rep, sc) ==
    IF rep.tag = "err" THEN [tag |-> "err", val |-> NoCrateScore]
    ELSE [tag |-> "ok",
          val |-> CrateScore(crate_info.name, crate_info.version, rep.val,
                             IF rep.val.some /\ sc.tag = "ok"
                             THEN sc.val ELSE NoneNum)]

Items == 1..Len(crates)

\* the first poll of item i: the GET to crates.io goes out
StartResolve(i) ==
    /\ mainPc = "block_on"
    /\ pc[i] = "Start"
    /\ pc' = [pc EXCEPT ![i] = "ResolvingRepo"]
    /\ resolverCalls' = [resolverCalls EXCEPT ![i] = @ + 1]
    /\ UNCHANGED <<lister, registry, scorecard, mainPc, crates, resolved,
                   scored, ret, scorerCalls, scorerUrl, scorerPath, completed,
                   results,
                   printIdx, output, run, firstOutput, firstCompleted, call>>

\* the registry's response reaches item i: the future returns (Err, or Ok
\* without a repository) or sends its GET to the scorecard service
ResolveRespond(i) ==
    /\ mainPc = "block_on"
    /\ pc[i] = "ResolvingRepo"
    /\ \E resp \in registry[crates[i].name] :
         LET rep == FetchCrateRepoUrl(resp)
             next == AfterResolve(rep)
         IN  /\ resolved' = [resolved EXCEPT ![i] = rep]
             /\ pc' = [pc EXCEPT ![i] = next]
             /\ IF next = "ScoringRepo"
                THEN /\ scorerCalls' = [scorerCalls EXCEPT ![i] = @ + 1]
                     /\ scorerUrl' = [scorerUrl EXCEPT ![i] = rep.val]
                     /\ scorerPath' =
                          [scorerPath EXCEPT ![i] = SomeStr(ScorecardPath(rep.val.v))]
                     /\ UNCHANGED <<ret, completed>>
                ELSE IF next = "Done"
                THEN /\ ret' = [ret EXCEPT
                                  ![i] = FetchCrateScore(crates[i], rep, scored[i])]
                     /\ completed' = Append(completed, i)
                     /\ UNCHANGED <<scorerCalls, scorerUrl, scorerPath>>
                ELSE UNCHANGED <<ret, completed, scorerCalls, scorerUrl,
                                 scorerPath>>
    /\ UNCHANGED <<lister, registry, scorecard, mainPc, crates, scored,
                   resolverCalls, results, printIdx, output, run, firstOutput,
                   firstCompleted, call>>

\* the scorecard service's response reaches item i: the future returns
ScoreRespond(i) ==
    /\ mainPc = "block_on"
    /\ pc[i] = "ScoringRepo"
    /\ \E resp \in scorecard[scorerPath[i].v] :
         LET sc == FetchSecurityScore(resp)
         IN  /\ scored' = [scored EXCEPT ![i] = sc]
             /\ ret' = [ret EXCEPT
                          ![i] = FetchCrateScore(crates[i], resolved[i], sc)]
    /\ pc' = [pc EXCEPT ![i] = "Done"]
    /\ completed' = Append(completed, i)
    /\ UNCHANGED <<lister, registry, scorecard, mainPc, crates, resolved,
                   resolverCalls, scorerCalls, scorerUrl, scorerPath, results,
                   printIdx,
                   output, run, firstOutput, firstCompleted, call>>

-----------------------------------------------------------------------------
(* main *)

\* results collected in the order the futures completed
JoinAllCompletionOrder(r, order) == [k \in 1..Len(order) |-> r[order[k]]]

\* futures::future::try_join_all: the first Err is the result of the batch
TryJoinAll(r, order) ==
    IF \E i \in DOMAIN r : r[i].tag = "err"
    THEN [k \in DOMAIN r |-> [tag |-> "err", val |-> NoCrateScore]]
    ELSE r

\* futures::future::join_all: the outputs, in the order of the futures
JoinAll(r, order) == [k \in 1..Len(r) |-> r[k]]

\* the batch's result unwrapped with `?`: an item's Err ends main
AfterJoinTry(r) ==
    IF \E i \in DOMAIN r : r[i].tag = "err" THEN "err" ELSE "print"

\* where main goes once block_on returned: `results` is a Vec of Results,
\* not a Result, so main goes on to print whatever the items returned
AfterJoin(r) == "print"

\* the batch is over as soon as one future is
AnyComplete(p) == p = <<>> \/ \E i \in DOMAIN p : p[i] = "Done"

\* join_all is ready when every future has returned
AllComplete(p) == \A i \in DOMAIN p : p[i] = "Done"

\* filter_map(Result::ok): the positions after `from` that hold an Ok
OkAfter(rs, from) == {k \in DOMAIN rs : k > from /\ rs[k].tag = "ok"}

Min(S) == CHOOSE k \in S : \A j \in S : k <= j

\* let crates = get_dependencies()?;
GetDependencies ==
    /\ mainPc = "get_dependencies"
    /\ IF GetDependenciesFails(lister)
       THEN mainPc' = "err" /\ UNCHANGED crates
       ELSE mainPc' = "client" /\ crates' = ParseDependencies(lister.stdout)
    /\ UNCHANGED <<lister, registry, scorecard, itemVars, results, printIdx,
                   output, run, firstOutput, firstCompleted, call>>

\* reqwest::Client::new(): returns the client, or panics when it cannot be
\* built
ClientNew(ok) ==
    /\ mainPc = "client"
    /\ mainPc' = IF ok THEN "runtime" ELSE "panic"
    /\ UNCHANGED <<lister, registry, scorecard, crates, itemVars, results,
                   printIdx, output, run, firstOutput, firstCompleted, call>>

\* Runtime::new()?; one future per crate, none polled yet
RuntimeNew(ok) ==
    /\ mainPc = "runtime"
    /\ IF ok
       THEN /\ mainPc' = "block_on"
            /\ pc' = [i \in Items |-> "Start"]
            /\ resolved' = [i \in Items |-> Pending(NoneStr)]
            /\ scored' = [i \in Items |-> Pending(NoneNum)]
            /\ ret' = [i \in Items |-> [tag |-> "pending", val |-> NoCrateScore]]
            /\ resolverCalls' = [i \in Items |-> 0]
            /\ scorerCalls' = [i \in Items |-> 0]
            /\ scorerUrl' = [i \in Items |-> NoneStr]
            /\ scorerPath' = [i \in Items |-> NoneStr]
            /\ UNCHANGED completed
       ELSE mainPc' = "err" /\ UNCHANGED itemVars
    /\ UNCHANGED <<lister, registry, scorecard, crates, results, printIdx,
                   output, run, firstOutput, firstCompleted, call>>

\* block_on(join_all(..)) returns; the table's header is printed
JoinAllReturns ==
    /\ mainPc = "block_on"
    /\ AllComplete(pc)
    /\ results' = JoinAll(ret, completed)
    /\ mainPc' = AfterJoin(ret)
    /\ UNCHANGED <<lister, registry, scorecard, crates, itemVars, printIdx,
                   output, run, firstOutput, firstCompleted, call>>

\* one iteration of the for loop: the next Ok of results is printed
PrintRow ==
    /\ mainPc = "print"
    /\ OkAfter(results, printIdx) # {}
    /\ LET k == Min(OkAfter(results, printIdx))
       IN  /\ output' = Append(output, results[k].val)
           /\ printIdx' = k
    /\ UNCHANGED <<lister, registry, scorecard, mainPc, crates, itemVars,
                   results, run, firstOutput, firstCompleted, call>>

\* the iterator is exhausted; main returns Ok(())
MainReturns ==
    /\ mainPc = "print"
    /\ OkAfter(results, printIdx) = {}
    /\ printIdx' = Len(results)
    /\ mainPc' = "done"
    /\ UNCHANGED <<lister, registry, scorecard, crates, itemVars, results,
                   output, run, firstOutput, firstCompleted, call>>

NoCall == [pc |-> "idle", repo_url |-> <<>>, path |-> NoneStr,
           ret |-> Pending(NoneNum)]

\* main has not started: nothing parsed, no future, nothing printed
NotStarted ==
    /\ mainPc = "get_dependencies"
    /\ crates = <<>>
    /\ pc = <<>>
    /\ resolved = <<>>
    /\ scored = <<>>
    /\ ret = <<>>
    /\ resolverCalls = <<>>
    /\ scorerCalls = <<>>
    /\ scorerUrl = <<>>
    /\ scorerPath = <<>>
    /\ completed = <<>>
    /\ results = <<>>
    /\ printIdx = 0
    /\ output = <<>>

\* one run of the program against the real services, which may answer a
\* request with any response
Init ==
    /\ lister \in ListerOutputs
    /\ registry = [n \in Names |-> RegistryResponses]
    /\ scorecard = [p \in Paths |-> ScorecardResponses]
    /\ NotStarted
    /\ run = 1
    /\ firstOutput = <<>>
    /\ firstCompleted = <<>>
    /\ call = NoCall

Next ==
    \/ GetDependencies
    \/ \E ok \in BOOLEAN : ClientNew(ok)
    \/ \E ok \in BOOLEAN : RuntimeNew(ok)
    \/ \E i \in Items : StartResolve(i)
    \/ \E i \in Items : ResolveRespond(i)
    \/ \E i \in Items : ScoreRespond(i)
    \/ JoinAllReturns
    \/ PrintRow
    \/ MainReturns

Spec == Init /\ [][Next]_vars

\* the steps of item i's future
ItemStep(i) ==
    /\ i \in Items
    /\ StartResolve(i) \/ ResolveRespond(i) \/ ScoreRespond(i)

\* the steps of main itself
MainStep ==
    \/ GetDependencies
    \/ \E ok \in BOOLEAN : ClientNew(ok)
    \/ \E ok \in BOOLEAN : RuntimeNew(ok)
    \/ JoinAllReturns
    \/ PrintRow
    \/ MainReturns

\* main runs on, block_on polls every future that can make progress, and a
\* response that can arrive does arrive
Fairness ==
    /\ WF_vars(MainStep)
    /\ \A i \in 1..Len(LineUniverse) : WF_vars(ItemStep(i))

SpecLive == Spec /\ Fairness

-----------------------------------------------------------------------------
(* One run against services that may never answer *)

\* a name or a path with no possible response is never answered
InitSilent ==
    /\ lister \in ListerOutputs
    /\ registry \in [Names -> {{}, RegistryResponses}]
    /\ scorecard \in [Paths -> {{}, ScorecardResponses}]
    /\ NotStarted
    /\ run = 1
    /\ firstOutput = <<>>
    /\ firstCompleted = <<>>
    /\ call = NoCall

SpecSilent == InitSilent /\ [][Next]_vars /\ Fairness

-----------------------------------------------------------------------------
(* Two runs on the same input against deterministic stub services *)

StubRegistryResponses ==
    {HttpResponse(404, TRUE, FALSE, JNull),
     HttpResponse(200, TRUE, TRUE, JNull)}
    \cup {HttpResponse(200, TRUE, TRUE, JString(u)) : u \in RepoUrls}

StubScorecardResponses ==
    {HttpResponse(404, TRUE, FALSE, JNull),
     HttpResponse(200, TRUE, TRUE, JNull)}
    \cup {HttpResponse(200, TRUE, TRUE, JNumber(n)) : n \in Scores}

\* each name always gets the same registry response, each path the same
\* scorecard response
InitTwice ==
    /\ lister \in ListerOutputs
    /\ registry \in [Names -> {{r} : r \in StubRegistryResponses}]
    /\ scorecard \in [Paths -> {{r} : r \in StubScorecardResponses}]
    /\ NotStarted
    /\ run = 1
    /\ firstOutput = <<>>
    /\ firstCompleted = <<>>
    /\ call = NoCall

\* the program is run again on the same lister output and services
Rerun ==
    /\ mainPc = "done"
    /\ run = 1
    /\ run' = 2
    /\ firstOutput' = output
    /\ firstCompleted' = completed
    /\ mainPc' = "get_dependencies"
    /\ crates' = <<>>
    /\ pc' = <<>>
    /\ resolved' = <<>>
    /\ scored' = <<>>
    /\ ret' = <<>>
    /\ resolverCalls' = <<>>
    /\ scorerCalls' = <<>>
    /\ scorerUrl' = <<>>
    /\ scorerPath' = <<>>
    /\ completed' = <<>>
    /\ results' = <<>>
    /\ printIdx' = 0
    /\ output' = <<>>
    /\ UNCHANGED <<lister, registry, scorecard, call>>

NextTwice == Next \/ Rerun

SpecTwice == InitTwice /\ [][NextTwice]_vars

-----------------------------------------------------------------------------
(* fetch_security_score called on its own, on any repository URL *)

UrlChunks == {HTTP, HTTPS, Widget, HostX}

\* the strings made of at most k chunks
RECURSIVE UrlsOfParts(_)
UrlsOfParts(k) ==
    IF k = 0 THEN {<<>>}
    ELSE LET shorter == UrlsOfParts(k - 1)
         IN  shorter \cup {c \o u : c \in UrlChunks, u \in shorter}

InitScorer ==
    /\ lister = [spawned |-> FALSE, success |-> FALSE, stdout |-> <<>>]
    /\ registry = [n \in Names |-> RegistryResponses]
    /\ scorecard = [p \in Paths |-> ScorecardResponses]
    /\ NotStarted
    /\ run = 1
    /\ firstOutput = <<>>
    /\ firstCompleted = <<>>
    /\ call \in {[pc |-> "called", repo_url |-> u, path |-> NoneStr,
                  ret |-> Pending(NoneNum)] : u \in UrlsOfParts(MaxUrlParts)}

\* the request URL is composed and the GET sent
ScorerSend ==
    /\ call.pc = "called"
    /\ call' = [call EXCEPT !.pc = "sent",
                            !.path = SomeStr(ScorecardPath(call.repo_url))]
    /\ UNCHANGED <<lister, registry, scorecard, mainPc, crates, itemVars,
                   results, printIdx, output, run, firstOutput, firstCompleted>>

\* the response arrives and the call returns
ScorerReturn ==
    /\ call.pc = "sent"
    /\ \E resp \in ScorecardResponses :
         call' = [call EXCEPT !.pc = "returned", !.ret = FetchSecurityScore(resp)]
    /\ UNCHANGED <<lister, registry, scorecard, mainPc, crates, itemVars,
                   results, printIdx, output, run, firstOutput, firstCompleted>>

NextScorer == ScorerSend \/ ScorerReturn

SpecScorer == InitScorer /\ [][NextScorer]_vars


-----------------------------------------------------------------------------
(* fetch_crate_repo_url called on its own, against any response *)

Statuses == {200, 204, 404, 500}

\* what the body holds at crate.repository when it is there
FieldValues == {JNull, JNumber(92)} \cup {JString(u) : u \in RepoUrls}

\* every response: no response at all, or a status with a body that is not
\* JSON, is JSON without the field, or is JSON with the field
AllResponses ==
    {TransportError}
    \cup {HttpResponse(s, FALSE, FALSE, JNull) : s \in Statuses}
    \cup {HttpResponse(s, TRUE, FALSE, JNull) : s \in Statuses}
    \cup {HttpResponse(s, TRUE, TRUE, v) : s \in Statuses, v \in FieldValues}

InitResolver ==
    /\ lister = [spawned |-> FALSE, success |-> FALSE, stdout |-> <<>>]
    /\ registry = [n \in Names |-> RegistryResponses]
    /\ scorecard = [p \in Paths |-> ScorecardResponses]
    /\ NotStarted
    /\ run = 1
    /\ firstOutput = <<>>
    /\ firstCompleted = <<>>
    /\ call \in {[pc |-> "called", crate_name |-> n, resp |-> r,
                  ret |-> Pending(NoneStr)] : n \in Names, r \in AllResponses}

\* the GET for the crate is sent
ResolverSend ==
    /\ call.pc = "called"
    /\ call' = [call EXCEPT !.pc = "sent"]
    /\ UNCHANGED <<lister, registry, scorecard, mainPc, crates, itemVars,
                   results, printIdx, output, run, firstOutput, firstCompleted>>

\* the response arrives and the call returns
ResolverReturn ==
    /\ call.pc = "sent"
    /\ call' = [call EXCEPT !.pc = "returned",
                            !.ret = FetchCrateRepoUrl(call.resp)]
    /\ UNCHANGED <<lister, registry, scorecard, mainPc, crates, itemVars,
                   results, printIdx, output, run, firstOutput, firstCompleted>>

NextResolver == ResolverSend \/ ResolverReturn

SpecResolver == InitResolver /\ [][NextResolver]_vars

-----------------------------------------------------------------------------
(* Properties of one run (Spec) *)

\* the rows printed for item i
RowsOf(i) ==
    {k \in DOMAIN output : /\ output[k].name = crates[i].name
                           /\ output[k].version = crates[i].version}

ResolverFailed(i) == resolved[i].tag = "err"

ResolvedSome(i) == resolved[i].tag = "ok" /\ resolved[i].val.some

ResolvedNone(i) == resolved[i].tag = "ok" /\ ~resolved[i].val.some

\* C1: once the run is over, the rows are one per input dependency: as many
\* rows as dependencies, and every dependency in exactly one row.
OnePerInput ==
    mainPc = "done" =>
        /\ Len(output) = Len(crates)
        /\ \A i \in Items : Cardinality(RowsOf(i)) = 1

\* C2: once the run is over, the k-th row is the row of the k-th dependency.
OutputOrderIsInputOrder ==
    mainPc = "done" =>
        \A k \in DOMAIN output : k \in Items /\ output[k].name = crates[k].name

\* C3: once the run is over, an item whose resolver call failed has a row
\* with no repository and no score, and the scorer was never called for it.
ResolverFailureGivesEmptyRow ==
    mainPc = "done" =>
        \A i \in Items :
            ResolverFailed(i) =>
                /\ scorerCalls[i] = 0
                /\ \E k \in RowsOf(i) : /\ output[k].repository = NoneStr
                                        /\ output[k].security_score = NoneNum

\* C4: once the run is over, an item whose resolver returned Some(url) and
\* whose scorer call failed has exactly one row, with that url as repository
\* and no score.
ScorerFailureKeepsRepository ==
    mainPc = "done" =>
        \A i \in Items :
            (ResolvedSome(i) /\ scored[i].tag = "err") =>
                /\ Cardinality(RowsOf(i)) = 1
                /\ \A k \in RowsOf(i) :
                      /\ output[k].repository = resolved[i].val
                      /\ output[k].security_score = NoneNum

ScorerFailureWitness ==
    /\ mainPc = "done"
    /\ \E i \in Items : ResolvedSome(i) /\ scored[i].tag = "err"

\* C5: in every state, an item whose resolver returned Ok(None) has sent no
\* request to the scorer; its future returns no score and its row has none.
NoRepositoryNoScorerCall ==
    \A i \in DOMAIN pc :
        ResolvedNone(i) =>
            /\ scorerCalls[i] = 0
            /\ pc[i] = "Done"
            /\ ret[i].tag = "ok" /\ ret[i].val.security_score = NoneNum
            /\ mainPc = "done" =>
                  /\ RowsOf(i) # {}
                  /\ \A k \in RowsOf(i) : output[k].security_score = NoneNum

NoRepositoryWitness ==
    /\ mainPc = "done"
    /\ \E i \in Items : ResolvedNone(i)

\* what item i alone contributes to the table: no row when its resolver call
\* failed, else one row with the repository its resolver call returned and
\* the score its scorer call returned, if it was made and succeeded
OwnRows(i) ==
    IF ResolverFailed(i) THEN {}
    ELSE {CrateScore(crates[i].name, crates[i].version, resolved[i].val,
                     IF scored[i].tag = "ok" THEN scored[i].val ELSE NoneNum)}

ItemState(i) ==
    <<pc[i], resolved[i], scored[i], ret[i], resolverCalls[i], scorerCalls[i],
      scorerUrl[i], scorerPath[i]>>

IsolationInv ==
    /\ (pc # <<>>) => mainPc \notin {"err", "panic"}
    /\ mainPc \in {"print", "done"} => Len(results) = Len(crates)
    /\ mainPc = "done" =>
          \A i \in Items : {output[k] : k \in RowsOf(i)} = OwnRows(i)

IsolationStep ==
    (mainPc = "block_on" /\ mainPc' = "block_on") =>
        \A i \in Items : \A j \in Items \ {i} :
            ItemState(j)' # ItemState(j) => ItemState(i)' = ItemState(i)

\* C6: the run never fails once the item pipelines exist and join_all returns
\* a result for every item; the rows of item i are a function of item i's own
\* resolver and scorer outcomes; and a step of item j leaves item i's
\* pipeline as it was.
FailureIsolation == []IsolationInv /\ [][IsolationStep]_vars

FailureIsolationWitness ==
    /\ mainPc = "done"
    /\ \E i \in Items : \E j \in Items :
          /\ ResolverFailed(j)
          /\ ResolvedSome(i) /\ scored[i].tag = "ok" /\ scored[i].val.some
          /\ completed[1] = j

\* C7: while some item pipeline has not returned, no row has been printed and
\* main has not left block_on.
JoinBarrier ==
    (output # <<>> \/ mainPc \in {"print", "done"}) =>
        /\ DOMAIN pc = Items
        /\ \A i \in Items : pc[i] = "Done"

JoinBarrierWitness ==
    /\ Len(output) >= 2
    /\ completed[1] # 1

RECURSIVE Sum(_, _)
Sum(f, n) == IF n = 0 THEN 0 ELSE f[n] + Sum(f, n - 1)

\* C10: in every state, each item has sent at most one request to the
\* registry and at most one to the scorecard service, so at most two
\* requests per input item were sent in all.
SingleAttempt ==
    /\ \A i \in DOMAIN pc : resolverCalls[i] <= 1 /\ scorerCalls[i] <= 1
    /\ Sum(resolverCalls, Len(pc)) + Sum(scorerCalls, Len(pc)) <= 2 * Len(crates)

SingleAttemptWitness ==
    /\ mainPc = "done"
    /\ \E i \in Items : ResolverFailed(i) /\ resolverCalls[i] = 1
    /\ \E i \in Items : ResolvedSome(i) /\ scored[i].tag = "err"
                        /\ scorerCalls[i] = 1

-----------------------------------------------------------------------------
(* Properties of two runs (SpecTwice) *)

\* C8: a second run on the same lister output, against services that answer
\* each name and each path as they did in the first run, prints the rows
\* the first run printed, in the same order.
SameOutputTwice ==
    (run = 2 /\ mainPc = "done") => output = firstOutput

SameOutputTwiceWitness ==
    /\ run = 2
    /\ mainPc = "done"
    /\ Len(output) >= 2
    /\ completed # firstCompleted

-----------------------------------------------------------------------------
(* Properties of fetch_security_score (SpecScorer) *)

RECURSIVE Rep(_, _)
Rep(p, n) == IF n = 0 THEN <<>> ELSE p \o Rep(p, n - 1)

\* C9, as claimed: the path queried is the URL with at most one leading
\* http:// removed and then at most one leading https:// removed.
StripsOneOfEach ==
    call.pc \in {"sent", "returned"} =>
        call.path =
            SomeStr(StripPrefixOnce(StripPrefixOnce(call.repo_url, HTTP), HTTPS))

\* C9, amended: the path queried is the URL with every leading repetition of
\* http:// removed and then every leading repetition of https:// removed:
\* the URL is m times http://, then k times https://, then the path, and
\* the path starts with no https://, nor with http:// unless an https://
\* precedes it.
StripsEveryRepetition ==
    call.pc \in {"sent", "returned"} =>
        /\ call.path.some
        /\ \E m \in 0..Len(call.repo_url) : \E k \in 0..Len(call.repo_url) :
              /\ call.repo_url = Rep(HTTP, m) \o Rep(HTTPS, k) \o call.path.v
              /\ ~StartsWith(call.path.v, HTTPS)
              /\ k = 0 => ~StartsWith(call.path.v, HTTP)
        /\ call.repo_url \in {HTTPS \o Widget, HTTP \o Widget}
              => call.path.v = Widget
        /\ call.repo_url = HTTP \o HTTP \o HostX => call.path.v = HostX

StripsEveryRepetitionWitness ==
    /\ call.pc = "returned"
    /\ call.repo_url = HTTP \o HTTP \o HostX

-----------------------------------------------------------------------------
(* Properties of fetch_crate_repo_url (SpecResolver) *)

\* the GET was answered with a success status and a JSON body
CallSucceeded(r) == r.sent /\ IsSuccess(r.status) /\ r.json

\* C12: resolve returns Some(url) exactly when the call succeeded and
\* crate.repository is the string url, None exactly when the call succeeded
\* and the field is absent or null, and an error exactly when the transport
\* failed, the status is no success, the body is not JSON or the field is
\* there and is neither a string nor null.
ResolverClassification ==
    call.pc = "returned" =>
        LET r == call.resp
        IN  /\ (call.ret.tag = "ok" /\ call.ret.val.some)
                  <=> (CallSucceeded(r) /\ r.has /\ r.val.t = "string")
            /\ (call.ret.tag = "ok" /\ call.ret.val.some)
                  => call.ret.val.v = r.val.s
            /\ (call.ret = Ok(NoneStr))
                  <=> (CallSucceeded(r) /\ (~r.has \/ r.val.t = "null"))
            /\ (call.ret.tag = "err")
                  <=> \/ ~r.sent
                      \/ ~IsSuccess(r.status)
                      \/ ~r.json
                      \/ r.has /\ r.val.t \notin {"string", "null"}

-----------------------------------------------------------------------------
(* Errors that end the run (Spec) *)

MainFailed == mainPc \in {"err", "panic"}

RequestsIssued ==
    \E i \in DOMAIN pc : resolverCalls[i] > 0 \/ scorerCalls[i] > 0

\* C11, as claimed: a run that ended with an error ended because the lister
\* failed or because the HTTP client could not be built, and has sent no
\* request.
OnlyListerOrClientEndsRun ==
    MainFailed =>
        /\ GetDependenciesFails(lister) \/ mainPc = "panic"
        /\ ~RequestsIssued

FailingStep ==
    (~MainFailed /\ MainFailed') =>
        \/ mainPc = "get_dependencies" /\ GetDependenciesFails(lister)
        \/ mainPc = "client" /\ mainPc' = "panic"
        \/ mainPc = "runtime" /\ mainPc' = "err"

\* C11, amended: the run ends with an error only in the step of the lister,
\* of the construction of the HTTP client or of the construction of the
\* async runtime; a run that ended with an error has created no item
\* pipeline and sent no request, and once a request is sent the run never
\* ends with an error.
RunEndingErrors ==
    /\ [](MainFailed => (pc = <<>> /\ ~RequestsIssued))
    /\ [](RequestsIssued => ~MainFailed)
    /\ [][FailingStep]_vars

RunEndingErrorsWitness ==
    /\ mainPc = "err"
    /\ ~GetDependenciesFails(lister)
    /\ Len(crates) >= 2

-----------------------------------------------------------------------------
(* The item pipeline (Spec) *)

ScorerFollowsResolverInv ==
    \A i \in DOMAIN pc :
        /\ pc[i] \in {"Start", "ResolvingRepo"} => scorerCalls[i] = 0
        /\ scorerCalls[i] > 0 =>
              /\ ResolvedSome(i)
              /\ resolverCalls[i] = 1
              /\ scorerUrl[i] = resolved[i].val
              /\ scorerPath[i] = SomeStr(ScorecardPath(resolved[i].val.v))

ScorerFollowsResolverStep ==
    (mainPc = "block_on" /\ mainPc' = "block_on") =>
        \A i \in Items :
            scorerCalls'[i] > scorerCalls[i] =>
                /\ pc[i] = "ResolvingRepo"
                /\ resolved'[i].tag = "ok" /\ resolved'[i].val.some
                /\ scorerUrl'[i] = resolved'[i].val

\* C13: an item sends its scorer request in the step in which its own
\* resolver call returns Ok(Some(url)), never before, and the scorer is
\* called with the URL that item's resolver call returned.
ScorerFollowsResolver ==
    []ScorerFollowsResolverInv /\ [][ScorerFollowsResolverStep]_vars

ScorerFollowsResolverWitness ==
    \E i \in DOMAIN pc : \E j \in DOMAIN pc :
        /\ i < j
        /\ scorerCalls[i] = 1 /\ scorerCalls[j] = 1
        /\ scorerUrl[i] # scorerUrl[j]
        /\ pc[i] = "ScoringRepo"
        /\ completed = <<j>>

\* the transitions of one item pipeline; ResolvedSome, ResolvedNone and
\* ResolveFailed are what the resolver call returned in the step that leaves
\* ResolvingRepo
PipelineStep(i) ==
    \/ pc'[i] = pc[i]
    \/ pc[i] = "Start" /\ pc'[i] = "ResolvingRepo"
    \/ /\ pc[i] = "ResolvingRepo" /\ pc'[i] = "ScoringRepo"
       /\ resolved'[i].tag = "ok" /\ resolved'[i].val.some
    \/ /\ pc[i] = "ResolvingRepo" /\ pc'[i] = "Done"
       /\ \/ resolved'[i].tag = "ok" /\ ~resolved'[i].val.some
          \/ resolved'[i].tag = "err"
    \/ /\ pc[i] = "ScoringRepo" /\ pc'[i] = "Done"
       /\ scored'[i].tag \in {"ok", "err"}

PipelineSteps ==
    /\ (pc = <<>> /\ pc' # <<>>) => \A i \in DOMAIN pc' : pc'[i] = "Start"
    /\ (pc # <<>>) => /\ DOMAIN pc' = DOMAIN pc
                      /\ \A i \in DOMAIN pc : PipelineStep(i)

\* C14: every item pipeline starts in Start and only takes the transitions
\* Start -> ResolvingRepo, ResolvingRepo -> ScoringRepo (resolved to a URL),
\* ResolvingRepo -> Done (no repository, or the resolver failed) and
\* ScoringRepo -> Done (the score lookup succeeded or failed); Done is never
\* left and no state is entered twice.
PipelineTransitions == [][PipelineSteps]_vars

PipelineTransitionsWitness ==
    \E i \in DOMAIN pc : \E j \in DOMAIN pc : \E k \in DOMAIN pc :
        /\ pc[i] = "Done" /\ ResolvedSome(i) /\ scored[i].tag = "ok"
        /\ pc[j] = "Done" /\ ResolvedSome(j) /\ scored[j].tag = "err"
        /\ pc[k] = "Done" /\ ResolverFailed(k)

\* the (name, version) of the items from i on whose resolver call did not
\* fail, in input order
RECURSIVE KeptFrom(_)
KeptFrom(i) ==
    IF i > Len(crates) THEN <<>>
    ELSE (IF ResolverFailed(i) THEN <<>> ELSE <<crates[i]>>) \o KeptFrom(i + 1)

\* C18: once the run is over, the rows are the items whose resolver call did
\* not fail, each once and in input order; an item has no row exactly when
\* its resolver call failed, whatever its scorer call did.
RowsAreResolvedItems ==
    mainPc = "done" =>
        /\ [k \in DOMAIN output |-> CrateInfo(output[k].name, output[k].version)]
              = KeptFrom(1)
        /\ \A i \in Items : /\ Cardinality(RowsOf(i)) <= 1
                            /\ RowsOf(i) = {} <=> ResolverFailed(i)

RowsAreResolvedItemsWitness ==
    /\ mainPc = "done"
    /\ Len(crates) = 3
    /\ ResolverFailed(2)
    /\ ResolvedSome(1) /\ scored[1].tag = "err"
    /\ completed[1] = 3

\* C19: in every state, a result that carries a score carries a repository,
\* and a printed row's score is the one the scorer returned to the item of
\* that row, which called it with the row's repository.
ScoreImpliesRepository ==
    /\ \A i \in DOMAIN ret :
          ret[i].val.security_score.some => ret[i].val.repository.some
    /\ \A k \in DOMAIN output :
          output[k].security_score.some =>
              /\ output[k].repository.some
              /\ \E i \in Items :
                    /\ k \in RowsOf(i)
                    /\ scorerUrl[i] = output[k].repository
                    /\ scored[i] = Ok(output[k].security_score)
                    /\ \E resp \in scorecard[ScorecardPath(scorerUrl[i].v)] :
                          FetchSecurityScore(resp) = Ok(output[k].security_score)

ScoreImpliesRepositoryWitness ==
    /\ mainPc = "done"
    /\ \E k \in DOMAIN output : \E l \in DOMAIN output :
          /\ output[k].security_score.some /\ output[l].security_score.some
          /\ output[k].security_score # output[l].security_score
          /\ output[k].repository # output[l].repository
    /\ \E i \in Items : ResolvedNone(i)

-----------------------------------------------------------------------------
(* Termination (SpecLive, SpecSilent) *)

BatchReturned ==
    /\ mainPc \in {"print", "done"}
    /\ \A i \in DOMAIN crates : i \in DOMAIN pc /\ pc[i] = "Done"

\* C15: under fair scheduling, with every request answered or failed, a
\* batch that was started is eventually over: every item pipeline is in Done
\* and block_on has returned to main, for every batch, the empty one too.
BatchTerminates == (mainPc = "block_on") ~> BatchReturned

BatchTerminatesWitness ==
    /\ BatchReturned
    /\ Len(crates) = 3
    /\ completed[1] = 3
    /\ \E i \in Items : ResolverFailed(i)

Awaiting(i) == i \in DOMAIN pc /\ pc[i] \in {"ResolvingRepo", "ScoringRepo"}

\* C16: also when a service never answers, an item that awaits a response
\* eventually reaches Done and block_on eventually returns.
NoIndefiniteSuspension ==
    \A i \in 1..Len(LineUniverse) :
        Awaiting(i) ~> (i \in DOMAIN pc /\ pc[i] = "Done" /\ BatchReturned)

-----------------------------------------------------------------------------
(* The batch get_dependencies builds (Spec) *)

Parsed == mainPc \notin {"get_dependencies", "err"}

\* C17: after get_dependencies no two entries of the batch have the same
\* name, whatever lines the lister printed.
UniqueNames ==
    Parsed => \A i \in Items : \A j \in Items :
                  i # j => crates[i].name # crates[j].name

====
